---- MODULE Spec2Model ----
(***************************************************************************)
(* Model of boc_exchange_rate_parser.py: ExchangeRateParser, which fetches *)
(* the Bank of China rate table, extracts the USD row (get_exchange_rates, *)
(* with bounded retries) and appends it to a tab-delimited file            *)
(* (save_to_csv); run() chains the two.                                    *)
(*                                                                         *)
(* Conventions.                                                            *)
(*  - A text (Python str) is a sequence of one-character strings, so that  *)
(*    str.strip() and float() are computed on the characters.  The CSV     *)
(*    header names, which the code never inspects, are one-chunk texts.    *)
(*  - A float is an exact decimal [num, scale] = num / 10^scale, kept in   *)
(*    normal form (no trailing zero in the fraction), so that equal        *)
(*    numbers are equal values.  Binary rounding of float is not modelled. *)
(*  - A Python Optional is a sequence of length 0 (None) or 1.             *)
(***************************************************************************)
EXTENDS Integers, Sequences, FiniteSets, TLC

\* ------------------------------------------------------------ bounds
\* Data rows after the header row in a document of the rich document set.
MaxRows == 2
\* Number of run() cycles against the same store.
MaxRuns == 2
\* Wall-clock readings are drawn from 0..MaxClock.
MaxClock == 1

\* ------------------------------------------------- program constants
\* __init__: self.max_retries (and the value an off-by-one would give it)
max_retries_off_by_one == 3 + 1

max_retries == 3
\* __init__: self.retry_delay (seconds)
retry_delay == 5

\* ------------------------------------------------------------- texts
DigitChars == <<"0", "1", "2", "3", "4", "5", "6", "7", "8", "9">>

IsDigit(c) == \E i \in 1..10 : DigitChars[i] = c

DigitVal(c) == (CHOOSE i \in 1..10 : DigitChars[i] = c) - 1

\* str.isspace() of one character
IsSpace(c) == c = " "

RECURSIVE LStrip(_)
LStrip(t) == IF t # <<>> /\ IsSpace(Head(t)) THEN LStrip(Tail(t)) ELSE t

RECURSIVE RStrip(_)
RStrip(t) ==
  IF t # <<>> /\ IsSpace(t[Len(t)]) THEN RStrip(SubSeq(t, 1, Len(t) - 1)) ELSE t

\* str.strip(): leading and trailing whitespace removed
StripLeftOnly(t) == LStrip(t)

Strip(t) == RStrip(LStrip(t))

RECURSIVE Pow10(_)
Pow10(k) == IF k = 0 THEN 1 ELSE 10 * Pow10(k - 1)

\* value of a sequence of digit characters (0 for the empty sequence)
RECURSIVE DigitsVal(_)
DigitsVal(t) ==
  IF t = <<>> THEN 0
  ELSE 10 * DigitsVal(SubSeq(t, 1, Len(t) - 1)) + DigitVal(t[Len(t)])

AllDigits(t) == \A i \in 1..Len(t) : IsDigit(t[i])

\* ------------------------------------------------------------ floats
\* normal form of the decimal num / 10^scale
RECURSIVE Norm(_)
Norm(v) ==
  IF v.scale > 0 /\ v.num % 10 = 0
  THEN Norm([num |-> v.num \div 10, scale |-> v.scale - 1])
  ELSE v

Zero == [num |-> 0, scale |-> 0]

\* position of the first "." of t, or 0
DotPos(t) ==
  IF \E i \in 1..Len(t) : t[i] = "."
  THEN CHOOSE i \in 1..Len(t) : t[i] = "." /\ \A j \in 1..(i - 1) : t[j] # "."
  ELSE 0

\* float(str) accepts, over the characters of the model (digits, ".", blanks
\* and letters): optional surrounding whitespace, then digits with an
\* optional fraction ("12", "12.", "1.5") or a fraction alone (".5").
FloatSyntaxOk(t) ==
  LET s == Strip(t)
      d == DotPos(s)
      ip == IF d = 0 THEN s ELSE SubSeq(s, 1, d - 1)
      fp == IF d = 0 THEN <<>> ELSE SubSeq(s, d + 1, Len(s))
  IN /\ AllDigits(ip)
     /\ AllDigits(fp)
     /\ Len(ip) + Len(fp) > 0

\* the value of float(t) where FloatSyntaxOk(t)
FloatValue(t) ==
  LET s == Strip(t)
      d == DotPos(s)
      ip == IF d = 0 THEN s ELSE SubSeq(s, 1, d - 1)
      fp == IF d = 0 THEN <<>> ELSE SubSeq(s, d + 1, Len(s))
  IN Norm([num |-> DigitsVal(ip) * Pow10(Len(fp)) + DigitsVal(fp),
           scale |-> Len(fp)])

\* x / 100 on floats
Div100Forgotten(v) == Norm(v)

Div100(v) == Norm([num |-> v.num, scale |-> v.scale + 2])

\* ---------------------------------------------------- Python outcomes
None == <<>>

Some(x) == <<x>>

\* the outcome of evaluating a block: it returns a value or raises
Return(x) == [raised |-> FALSE, exc |-> "", value |-> Some(x)]

Raise(e) == [raised |-> TRUE, exc |-> e, value |-> None]

\* ------------------------------------------ get_exchange_rates: the row
USD == <<"U", "S", "D">>

\* the keys of the returned dict, in the order the dict literal lists them
RateFields ==
  <<"Buying Rate", "Cash Buying Rate", "Selling Rate", "Cash Selling Rate",
    "Middle Rate">>

RecordFields ==
  {"Currency Name", "Pub Time", "Timestamp"} \cup {RateFields[i] : i \in 1..5}

\* Python's cells[k] (0-based) and whether it exists
Cell(cells, k) == cells[k + 1]

HasCell(cells, k) == k + 1 <= Len(cells)

\* float(cell.text.strip() or 0): ok = FALSE stands for float's ValueError
ParseRateStrict(t) ==
  LET s == Strip(t)
  IN IF FloatSyntaxOk(s) THEN [ok |-> TRUE, val |-> FloatValue(s)]
     ELSE [ok |-> FALSE, val |-> Zero]

ParseRateLenient(t) ==
  LET s == Strip(t)
  IN IF s # <<>> /\ FloatSyntaxOk(s) THEN [ok |-> TRUE, val |-> FloatValue(s)]
     ELSE [ok |-> TRUE, val |-> Zero]

ParseRate(t) ==
  LET s == Strip(t)
  IN IF s = <<>> THEN [ok |-> TRUE, val |-> Zero]
     ELSE IF FloatSyntaxOk(s) THEN [ok |-> TRUE, val |-> FloatValue(s)]
     ELSE [ok |-> FALSE, val |-> Zero]

\* datetime.now().strftime('%Y-%m-%d %H:%M:%S'): a fixed-width text whose
\* lexicographic order is the order of the readings
StrftimeCoarse(now) == <<DigitChars[((now \div 10) % 10) + 1], "0">>

Strftime(now) == <<DigitChars[((now \div 10) % 10) + 1], DigitChars[(now % 10) + 1]>>

\* The dict literal evaluates its values in order: cells[1..5] parsed, then
\* cells[6]; the first cell that is missing (IndexError) or malformed
\* (ValueError) raises.  0 when every value evaluates.
CellFaulty(cells, k) ==
  \/ ~HasCell(cells, k)
  \/ k <= 5 /\ ~ParseRate(Cell(cells, k)).ok

FirstFault(cells) ==
  IF \E k \in 1..6 : CellFaulty(cells, k)
  THEN CHOOSE k \in 1..6 :
         CellFaulty(cells, k) /\ \A j \in 1..(k - 1) : ~CellFaulty(cells, j)
  ELSE 0

\* the value the dict literal gives key f
FieldValueSwapped(cells, f, now) ==
  IF f = "Currency Name" THEN USD
  ELSE IF f = "Buying Rate" THEN Div100(ParseRate(Cell(cells, 2)).val)
  ELSE IF f = "Cash Buying Rate" THEN Div100(ParseRate(Cell(cells, 1)).val)
  ELSE IF f = "Selling Rate" THEN Div100(ParseRate(Cell(cells, 3)).val)
  ELSE IF f = "Cash Selling Rate" THEN Div100(ParseRate(Cell(cells, 4)).val)
  ELSE IF f = "Middle Rate" THEN Div100(ParseRate(Cell(cells, 5)).val)
  ELSE IF f = "Pub Time" THEN Strip(Cell(cells, 6))
  ELSE Strftime(now)

FieldValue(cells, f, now) ==
  IF f = "Currency Name" THEN USD
  ELSE IF f = "Buying Rate" THEN Div100(ParseRate(Cell(cells, 1)).val)
  ELSE IF f = "Cash Buying Rate" THEN Div100(ParseRate(Cell(cells, 2)).val)
  ELSE IF f = "Selling Rate" THEN Div100(ParseRate(Cell(cells, 3)).val)
  ELSE IF f = "Cash Selling Rate" THEN Div100(ParseRate(Cell(cells, 4)).val)
  ELSE IF f = "Middle Rate" THEN Div100(ParseRate(Cell(cells, 5)).val)
  ELSE IF f = "Pub Time" THEN Strip(Cell(cells, 6))
  ELSE Strftime(now)

\* `return {...}` on the matched row
RowRecord(cells, now) ==
  LET k == FirstFault(cells)
  IN IF k = 0 THEN Return([f \in RecordFields |-> FieldValue(cells, f, now)])
     ELSE IF ~HasCell(cells, k) THEN Raise("IndexError")
     ELSE Raise("ValueError")

\* `cells and cells[0].text.strip() == 'USD'`
RowMatchesUnstripped(cells) == cells # <<>> /\ Cell(cells, 0) = USD

RowMatches(cells) == cells # <<>> /\ Strip(Cell(cells, 0)) = USD

\* table.find_all('tr')[1:]
DataRowsWithHeader(trs) == trs

DataRows(trs) == IF trs = <<>> THEN <<>> ELSE Tail(trs)

\* the for loop over the rows, and the raise after it
RECURSIVE ScanRows(_, _)
ScanRows(rows, now) ==
  IF rows = <<>> THEN Raise("USD rate not found in the table")
  ELSE IF RowMatches(Head(rows)) THEN RowRecord(Head(rows), now)
  ELSE ScanRows(Tail(rows), now)

\* A response of requests.get: kind "unreachable" (the call raises),
\* "bad_status" (raise_for_status raises) or "ok"; table is the Optional
\* result of soup.find('table', {...}), the list of its rows, each the list
\* of the texts of its td cells.
Response(kind, table) == [kind |-> kind, table |-> table]

\* the body of the try block of one attempt
TryBody(resp, now) ==
  IF resp.kind = "unreachable" THEN Raise("ConnectionError")
  ELSE IF resp.kind = "bad_status" THEN Raise("HTTPError")
  ELSE IF resp.table = None THEN Raise("Exchange rate table not found")
  ELSE ScanRows(DataRows(resp.table[1]), now)

\* `except Exception`: every exception the try block raises is an Exception
\* `except Exception`: every exception the try block raises is an Exception
CatchesNoParseErrors(exc) == exc \notin {"IndexError", "ValueError"}

CatchesTransportOnly(exc) == exc \in {"ConnectionError", "HTTPError"}

Catches(exc) ==
  exc \in {"ConnectionError", "HTTPError", "Exchange rate table not found",
           "USD rate not found in the table", "IndexError", "ValueError"}

\* `if attempt < self.max_retries - 1`
RetryAlways(attempt) == TRUE

RetryEarlyStop(attempt) == attempt < max_retries - 2

ShouldRetry(attempt) == attempt < max_retries - 1

\* range(self.max_retries) has a next value after attempt
HasNextAttempt(attempt) == attempt + 1 < max_retries

\* -------------------------------------------------------- save_to_csv
fieldnames ==
  <<"Currency Name", "Buying Rate", "Cash Buying Rate", "Selling Rate",
    "Cash Selling Rate", "Middle Rate", "Pub Time", "Timestamp">>

\* the decimal digits of a natural number
RECURSIVE NatText(_)
NatText(n) ==
  IF n < 10 THEN <<DigitChars[n + 1]>>
  ELSE NatText(n \div 10) \o <<DigitChars[(n % 10) + 1]>>

\* v in units of 10^-4, rounded to nearest (ties to even)
Units4(v) ==
  IF v.scale <= 4 THEN v.num * Pow10(4 - v.scale)
  ELSE LET p == Pow10(v.scale - 4)
           q == v.num \div p
           r == v.num % p
       IN IF 2 * r > p \/ (2 * r = p /\ q % 2 = 1) THEN q + 1 ELSE q

\* f"{v:.4f}" of a non-negative float
Format4Unpadded(v) ==
  LET u == Units4(v)
  IN NatText(u \div 10000) \o <<".">> \o NatText(u % 10000)

Format4(v) ==
  LET u == Units4(v)
      fp == u % 10000
  IN NatText(u \div 10000) \o <<".">> \o
     <<DigitChars[(fp \div 1000) + 1], DigitChars[((fp \div 100) % 10) + 1],
       DigitChars[((fp \div 10) % 10) + 1], DigitChars[(fp % 10) + 1]>>

IsRateField(f) == \E i \in 1..5 : RateFields[i] = f

\* formatted_data
FormattedData(data) ==
  [f \in RecordFields |-> IF IsRateField(f) THEN Format4(data[f]) ELSE data[f]]

\* writer.writerow(formatted_data): the values in fieldnames order
DataRow(data) ==
  [kind |-> "data", fields |-> [i \in 1..8 |-> FormattedData(data)[fieldnames[i]]]]

\* writer.writeheader(): the field names
HeaderRow == [kind |-> "header", fields |-> [i \in 1..8 |-> <<fieldnames[i]>>]]

\* `if not file_exists`
HeaderAlways(file_exists) == TRUE

HeaderNeeded(file_exists) == ~file_exists

\* `if not data` / `if exchange_data`: None and {} are falsy
TruthyNotNone(data) == data # None

Truthy(data) == data # None /\ DOMAIN data[1] # {}

\* run(): `if exchange_data:`
ShouldSaveNever(data) == FALSE

ShouldSave(data) == Truthy(data)

\* ------------------------------------------------- the server's answers
Txt68000 == <<"6", "8", "0", "0", "0">>

Txt67500 == <<"6", "7", "5", "0", "0">>

Txt68300 == <<"6", "8", "3", "0", "0">>

Txt68600 == <<"6", "8", "6", "0", "0">>

Txt68150 == <<"6", "8", "1", "5", "0">>

Txt0930 == <<"0", "9", ":", "3", "0", ":", "0", "0">>

\* a well-formed USD row, a second USD row with other values, a EUR row,
\* and a header row (th cells only: no td)
GoodRow == <<USD, Txt68000, Txt67500, Txt68300, Txt68600, Txt68150, Txt0930>>

OtherUsdRow ==
  <<USD, <<"1">>, <<"2">>, <<"3">>, <<"4">>, <<"5">>, <<"1", "0", ":", "0", "0">>>>

EurRow ==
  <<<<"E", "U", "R">>, <<"7", "1", "0">>, <<"7", "0", "0">>, <<"7", "2", "0">>,
    <<"7", "3", "0">>, <<"7", "1", "5">>, Txt0930>>

ThRow == <<>>

\* cell texts tried in every rate column: empty, padded, not a number
CoreTexts == {<<>>, <<" ", "1", "2", " ">>, <<"x">>}

\* cell texts tried in the first rate column: blank, fractional, broken
EdgeTexts == {<<" ">>, <<"1", ".", "5">>, <<"1", " ", "2">>, <<".">>}

\* GoodRow, whole or cut short, and the rows that differ from it in one cell
VariedRows ==
  {[GoodRow EXCEPT ![k + 1] = t] : k \in 1..5, t \in CoreTexts}
    \cup {[GoodRow EXCEPT ![2] = t] : t \in EdgeTexts}
    \cup {SubSeq(GoodRow, 1, n) : n \in 0..7}
    \cup {GoodRow \o <<<<"e", "x", "t", "r", "a">>>>}
    \cup {[GoodRow EXCEPT ![7] = t] : t \in {<<>>, <<" ", "0", "9", " ">>}}
    \cup {[GoodRow EXCEPT ![1] = c] :
            c \in {<<" ", "U", "S", "D", " ">>, <<"U", "S", "D", "X">>,
                   <<"U", " ", "S", "D">>, <<>>}}

Fillers == {EurRow, OtherUsdRow}

\* the tables of n rows with at most one varied row
TablesOfLen(n) ==
  [1..n -> Fillers]
    \cup {[s EXCEPT ![i] = v] : s \in [1..n -> Fillers], i \in 1..n, v \in VariedRows}

Unreachable == Response("unreachable", None)

BadStatus == Response("bad_status", None)

NoTable == Response("ok", None)

Page(trs) == Response("ok", Some(trs))

\* the answers of the extraction specification: header row plus up to
\* MaxRows data rows
RichResponses ==
  {Unreachable, BadStatus, NoTable}
    \cup {Page(t) : t \in UNION {TablesOfLen(n) : n \in 0..(MaxRows + 1)}}

\* the answers of the pipeline specification
BasicResponses ==
  {Unreachable,
   Page(<<ThRow, EurRow>>),
   Page(<<ThRow, EurRow, GoodRow>>),
   Page(<<ThRow, [OtherUsdRow EXCEPT ![3] = <<>>], GoodRow>>)}

\* ------------------------------------------------------------- state
VARIABLES
  pc,             \* where the process is
  runs,           \* run() calls started
  attempt,        \* get_exchange_rates: the loop variable
  response,       \* get_exchange_rates: Optional answer of this attempt's GET
  exchange_data,  \* run: Optional dict returned by get_exchange_rates
  file_exists,    \* save_to_csv: the local of that name
  dirExists,      \* the data directory exists
  fileExists,     \* the output file exists
  rows,           \* the rows of the output file
  trace,          \* this run's GETs, sleeps, log entries and writes, in order
  handed,         \* history: the dicts save_to_csv has been called with
  start,          \* history: the store when this run began, and at Init
  readings,       \* history: the wall-clock values datetime.now() returned
  peer            \* a second process in save_to_csv on the same store

vars ==
  <<pc, runs, attempt, response, exchange_data, file_exists, dirExists,
    fileExists, rows, trace, handed, start, readings, peer>>

\* the second process: where it is, its argument and its local file_exists
PeerOff == [pc |-> "off", data |-> None, file_exists |-> FALSE]

\* events of the trace; a log entry has level "ERROR" or "INFO"
Event(ev, level, n, cause, secs) ==
  [ev |-> ev, level |-> level, attempt |-> n, cause |-> cause, secs |-> secs]

EvGet == Event("GET", "", 0, "", 0)

EvSleep(secs) == Event("SLEEP", "", 0, "", secs)

EvWrite == Event("WRITE", "", 0, "", 0)

LogStart == Event("Fetching USD exchange rate", "INFO", 0, "", 0)

LogAttemptFailed(n, cause) == Event("Attempt failed", "ERROR", n, cause, 0)

LogRetrying == Event("Retrying", "INFO", 0, "", retry_delay)

LogGivingUp == Event("Max retries reached. Giving up.", "ERROR", 0, "", 0)

LogMiddleRate == Event("USD Exchange Rate (Middle Rate)", "INFO", 0, "", 0)

LogSaved == Event("Exchange rate data saved", "INFO", 0, "", 0)

LogRunFailed == Event("Failed to fetch exchange rate data", "ERROR", 0, "", 0)

Store == [dir |-> dirExists, exists |-> fileExists, rows |-> rows]

\* the state after ExchangeRateParser(): the store is whatever earlier
\* processes left (no directory; no file; an empty file; a file with header)
Init ==
  /\ pc = "idle"
  /\ runs = 0
  /\ attempt = 0
  /\ response = None
  /\ exchange_data = None
  /\ file_exists = FALSE
  /\ \E s \in {[dir |-> FALSE, exists |-> FALSE, rows |-> <<>>],
               [dir |-> TRUE, exists |-> FALSE, rows |-> <<>>],
               [dir |-> TRUE, exists |-> TRUE, rows |-> <<>>],
               [dir |-> TRUE, exists |-> TRUE, rows |-> <<HeaderRow>>]} :
        /\ dirExists = s.dir
        /\ fileExists = s.exists
        /\ rows = s.rows
        /\ start = [init |-> s, run |-> s]
  /\ trace = <<>>
  /\ handed = <<>>
  /\ readings = <<>>
  /\ peer = PeerOff

\* run(), up to the call of get_exchange_rates and the entry of its loop;
\* at most `limit` runs are started
Run(limit) ==
  /\ pc \in {"idle", "done"}
  /\ runs < limit
  /\ runs' = runs + 1
  /\ trace' = <<LogStart>>
  /\ attempt' = 0
  /\ response' = None
  /\ exchange_data' = None
  /\ start' = [start EXCEPT !.run = Store]
  /\ pc' = "get"
  /\ UNCHANGED <<file_exists, dirExists, fileExists, rows, handed>>
  /\ UNCHANGED <<readings, peer>>


\* requests.get(self.base_url, headers=self.headers): one GET, answered by
\* one of the answers R
GetMakingDir(R) ==
  /\ pc = "get"
  /\ \E r \in R : response' = Some(r)
  /\ trace' = Append(trace, EvGet)
  /\ pc' = "try"
  /\ dirExists' = TRUE
  /\ UNCHANGED <<runs, attempt, exchange_data, file_exists, fileExists, rows,
                 handed, start, readings, peer>>

GetTwice(R) ==
  /\ pc = "get"
  /\ \E r \in R : response' = Some(r)
  /\ trace' = trace \o <<EvGet, EvGet>>
  /\ pc' = "try"
  /\ UNCHANGED <<runs, attempt, exchange_data, file_exists, dirExists,
                 fileExists, rows, handed, start, readings, peer>>

Get(R) ==
  /\ pc = "get"
  /\ \E r \in R : response' = Some(r)
  /\ trace' = Append(trace, EvGet)
  /\ pc' = "try"
  /\ UNCHANGED <<runs, attempt, exchange_data, file_exists, dirExists,
                 fileExists, rows, handed, start>>
  /\ UNCHANGED <<readings, peer>>


\* the rest of the try block and the except clause of this attempt
Try ==
  /\ pc = "try"
  /\ \E now \in 0..MaxClock :
       \E out \in {TryBody(response[1], now)} :
          IF ~out.raised
          THEN /\ exchange_data' = out.value
               /\ readings' = Append(readings, now)
               /\ pc' = "returned"
               /\ UNCHANGED <<trace, response>>
          ELSE IF ~Catches(out.exc)
          THEN /\ pc' = "raised"
               /\ UNCHANGED <<trace, response, exchange_data, readings>>
          ELSE IF ShouldRetry(attempt)
          THEN /\ trace' = trace \o <<LogAttemptFailed(attempt + 1, out.exc),
                                       LogRetrying>>
               /\ pc' = "sleep"
               /\ response' = None
               /\ UNCHANGED <<exchange_data, readings>>
          ELSE /\ trace' = trace \o <<LogAttemptFailed(attempt + 1, out.exc),
                                       LogGivingUp>>
               /\ exchange_data' = None
               /\ pc' = "returned"
               /\ response' = None
               /\ UNCHANGED readings
  /\ UNCHANGED <<runs, attempt, file_exists, dirExists, fileExists, rows,
                 handed, start>>
  /\ UNCHANGED peer


\* time.sleep(self.retry_delay), then the next value of range(max_retries);
\* a loop that runs out falls off the end of the function: None
Sleep ==
  /\ pc = "sleep"
  /\ trace' = Append(trace, EvSleep(retry_delay))
  /\ IF HasNextAttempt(attempt)
     THEN /\ attempt' = attempt + 1
          /\ pc' = "get"
          /\ UNCHANGED exchange_data
     ELSE /\ exchange_data' = None
          /\ pc' = "returned"
          /\ UNCHANGED attempt
  /\ UNCHANGED <<runs, response, file_exists, dirExists, fileExists, rows,
                 handed, start>>
  /\ UNCHANGED <<readings, peer>>


\* run(): `if exchange_data:` and its two branches, up to the call of
\* save_to_csv; the locals of get_exchange_rates are gone
AfterFetch ==
  /\ pc = "returned"
  /\ IF ShouldSave(exchange_data)
     THEN /\ trace' = Append(trace, LogMiddleRate)
          /\ handed' = Append(handed, exchange_data[1])
          /\ pc' = "save"
     ELSE /\ trace' = Append(trace, LogRunFailed)
          /\ pc' = "done"
          /\ UNCHANGED handed
  /\ response' = None
  /\ UNCHANGED <<runs, attempt, exchange_data, file_exists, dirExists,
                 fileExists, rows, start>>
  /\ UNCHANGED <<readings, peer>>


\* save_to_csv: `if not data: return`, os.makedirs, os.path.isfile
SaveEnter ==
  /\ pc = "save"
  /\ IF ~Truthy(exchange_data)
     THEN /\ pc' = "done"
          /\ UNCHANGED <<dirExists, file_exists>>
     ELSE /\ dirExists' = TRUE
          /\ file_exists' = fileExists
          /\ pc' = "open"
  /\ UNCHANGED <<runs, attempt, response, exchange_data, fileExists, rows,
                 trace, handed, start>>
  /\ UNCHANGED <<readings, peer>>


\* open(self.output_file, 'a'): creates the file when it is absent
SaveOpen ==
  /\ pc = "open"
  /\ fileExists' = TRUE
  /\ pc' = "write"
  /\ UNCHANGED <<runs, attempt, response, exchange_data, file_exists,
                 dirExists, rows, trace, handed, start>>
  /\ UNCHANGED <<readings, peer>>


\* the body of the with block: the header when the file did not exist,
\* the formatted row, and the close that flushes them
SaveWriteTruncating ==
  /\ pc = "write"
  /\ rows' = (IF HeaderNeeded(file_exists) THEN <<HeaderRow>> ELSE <<>>)
               \o <<DataRow(exchange_data[1])>>
  /\ trace' = Append(trace, EvWrite)
  /\ pc' = "saved"
  /\ UNCHANGED <<runs, attempt, response, exchange_data, file_exists,
                 dirExists, fileExists, handed, start, readings, peer>>

SaveWrite ==
  /\ pc = "write"
  /\ rows' = rows \o (IF HeaderNeeded(file_exists) THEN <<HeaderRow>> ELSE <<>>)
                  \o <<DataRow(exchange_data[1])>>
  /\ trace' = Append(trace, EvWrite)
  /\ pc' = "saved"
  /\ UNCHANGED <<runs, attempt, response, exchange_data, file_exists,
                 dirExists, fileExists, handed, start>>
  /\ UNCHANGED <<readings, peer>>


\* logging.info("... saved to ..."), and the return to run()
SaveLog ==
  /\ pc = "saved"
  /\ trace' = Append(trace, LogSaved)
  /\ pc' = "done"
  /\ UNCHANGED <<runs, attempt, response, exchange_data, file_exists,
                 dirExists, fileExists, rows, handed, start>>
  /\ UNCHANGED <<readings, peer>>

Save == SaveEnter \/ SaveOpen \/ SaveWrite \/ SaveLog

\* the pipeline: MaxRuns runs against one store
Next == Run(MaxRuns) \/ Get(BasicResponses) \/ Try \/ Sleep \/ AfterFetch \/ Save

Spec == Init /\ [][Next]_vars

\* the extraction: the same program, answered from the rich document set
NextParse == Run(1) \/ Get(RichResponses) \/ Try \/ Sleep \/ AfterFetch \/ Save

InitParse == Init /\ ~dirExists

SpecParse == InitParse /\ [][NextParse]_vars

\* ------------------------------------------------ reading the trace
IsGet(e) == e.ev = "GET"

IsSleep(e) == e.ev = "SLEEP"

IsAttemptFailed(e) == e.ev = "Attempt failed"

IsGivingUp(e) == e.ev = "Max retries reached. Giving up."

IsLogEntry(e) == e.level # ""

Gets == SelectSeq(trace, IsGet)

Sleeps == SelectSeq(trace, IsSleep)

Failures == SelectSeq(trace, IsAttemptFailed)

\* positions of the trace that hold an event of the kind
GetPositions == {i \in 1..Len(trace) : IsGet(trace[i])}

SleepPositions == {i \in 1..Len(trace) : IsSleep(trace[i])}

FailurePositions == {i \in 1..Len(trace) : IsAttemptFailed(trace[i])}

GivingUpPositions == {i \in 1..Len(trace) : IsGivingUp(trace[i])}

\* get_exchange_rates has returned to run()
FetchOver == pc \in {"returned", "save", "open", "write", "saved", "done"}

\* get_exchange_rates has returned None: every attempt failed
AllAttemptsFailed == FetchOver /\ runs > 0 /\ exchange_data = None

Fetched == FetchOver /\ exchange_data # None

\* ------------------------------------------------------------ claims

\* C1: one invocation of get_exchange_rates issues at least 1 and at most
\* max_retries (3) GET requests, exactly one per attempt: while the loop
\* runs the GETs issued are the attempts begun, and at the return every GET
\* is accounted for by one failed attempt or by the one successful attempt.
C1_GetsBounded ==
  /\ Len(Gets) <= 3
  /\ pc = "get" => Len(Gets) = attempt
  /\ pc \in {"try", "sleep"} => Len(Gets) = attempt + 1
  /\ (FetchOver /\ runs > 0) =>
       /\ Len(Gets) >= 1
       /\ Len(Gets) = attempt + 1
       /\ Len(Gets) = Len(Failures) + (IF exchange_data # None THEN 1 ELSE 0)

\* C1 witness: an invocation that used all three GETs and then succeeded
C1_Witness ==
  pc = "returned" /\ exchange_data # None /\ Len(Gets) = 3 /\ Len(Failures) = 2

\* C2: whatever the outcomes of the attempts, get_exchange_rates ends with a
\* complete record or with None, no exception leaves it, and when all
\* max_retries attempts failed the result is None.
C2_NoFaultPropagates ==
  /\ pc # "raised"
  /\ (FetchOver /\ runs > 0) =>
       \/ exchange_data = None
       \/ Len(exchange_data) = 1 /\ DOMAIN exchange_data[1] = RecordFields
  /\ (FetchOver /\ Len(Failures) = max_retries) => exchange_data = None

\* C2 witness: None returned after a transport failure, a parse failure
\* and a missing cell
C2_Witness ==
  /\ pc = "returned"
  /\ exchange_data = None
  /\ \E i, j, k \in 1..Len(trace) :
       /\ IsAttemptFailed(trace[i]) /\ trace[i].cause = "ConnectionError"
       /\ IsAttemptFailed(trace[j]) /\ trace[j].cause = "ValueError"
       /\ IsAttemptFailed(trace[k]) /\ trace[k].cause = "IndexError"

\* C3: when every attempt of an invocation failed, it logged exactly
\* max_retries per-attempt failure entries, numbered 1, 2, ..., max_retries
\* in that order, and exactly one terminal failure entry, which comes after
\* the last per-attempt entry.
C3_FailureLog ==
  AllAttemptsFailed =>
    /\ Len(Failures) = max_retries
    /\ \A i \in 1..Len(Failures) :
         Failures[i].attempt = i /\ Failures[i].level = "ERROR"
    /\ Cardinality(GivingUpPositions) = 1
    /\ \A g \in GivingUpPositions :
         /\ trace[g].level = "ERROR"
         /\ \A f \in FailurePositions : f < g

\* C3 witness: the third failure is followed by the terminal entry
C3_Witness ==
  /\ pc = "returned"
  /\ exchange_data = None
  /\ Len(trace) >= 2
  /\ IsGivingUp(trace[Len(trace)])
  /\ IsAttemptFailed(trace[Len(trace) - 1])
  /\ trace[Len(trace) - 1].attempt = 3

\* C4: when all max_retries (3) attempts failed, the invocation slept
\* exactly max_retries - 1 (2) times, 5 seconds each: once between each two
\* consecutive GETs and not after the last failed attempt.
C4_Delays ==
  AllAttemptsFailed =>
    /\ Len(Sleeps) = max_retries - 1
    /\ Len(Sleeps) = 2
    /\ \A i \in 1..Len(Sleeps) : Sleeps[i].secs = 5
    /\ \A g, h \in GetPositions :
         (g < h /\ \A m \in GetPositions : ~(g < m /\ m < h)) =>
           Cardinality({d \in SleepPositions : g < d /\ d < h}) = 1
    /\ \A d \in SleepPositions : \E g \in GetPositions : d < g

\* C4 witness: three failed attempts with their two delays behind them
C4_Witness ==
  /\ pc = "done"
  /\ exchange_data = None
  /\ Len(Gets) = 3
  /\ Len(Sleeps) = 2

\* the data rows of a file, in file order
DataRowsOf(file) == SelectSeq(file, LAMBDA r : r.kind = "data")

HeadersOf(file) == SelectSeq(file, LAMBDA r : r.kind = "header")

IsPrefix(a, b) == Len(a) <= Len(b) /\ SubSeq(b, 1, Len(a)) = a

\* the row holds the fields of the record: code, published time and
\* timestamp as they are, each rate as a numeral of the same value
RowCarries(row, rec) ==
  /\ row.kind = "data"
  /\ DOMAIN row.fields = 1..8
  /\ row.fields[1] = rec["Currency Name"]
  /\ \A k \in 1..5 :
       /\ FloatSyntaxOk(row.fields[k + 1])
       /\ FloatValue(row.fields[k + 1]) = rec[RateFields[k]]
  /\ row.fields[7] = rec["Pub Time"]
  /\ row.fields[8] = rec["Timestamp"]

\* C5: a run() that fetched a record ends with exactly one data row appended
\* to the file, carrying the record's fields; a run() whose fetch returned
\* None ends with the store as it was (no directory or file created, no
\* header, no row); no run ever appends more than one data row.
C5_OneRowPerRun ==
  /\ IsPrefix(start.run.rows, rows)
  /\ Len(DataRowsOf(rows)) - Len(DataRowsOf(start.run.rows)) \in {0, 1}
  /\ (pc = "done" /\ exchange_data # None) =>
       /\ Len(DataRowsOf(rows)) = Len(DataRowsOf(start.run.rows)) + 1
       /\ RowCarries(rows[Len(rows)], exchange_data[1])
  /\ (pc = "done" /\ exchange_data = None) => Store = start.run

\* C5 witness: a second run that fetched a record and appended it after the
\* row of the first run
C5_Witness ==
  /\ pc = "done"
  /\ runs = 2
  /\ exchange_data # None
  /\ Len(DataRowsOf(start.run.rows)) = 1
  /\ Len(DataRowsOf(rows)) = 2

\* save_to_csv calls that have returned
SavesCompleted ==
  IF pc \in {"save", "open", "write"} THEN Len(handed) - 1 ELSE Len(handed)

\* the call of save_to_csv in progress has written, or has returned
JustSaved == pc \in {"saved", "done"} /\ exchange_data # None

\* C6: starting from a destination that does not exist, after N >= 1
\* completed save_to_csv calls the file is one header row followed by the N
\* data rows in call order; and a call writes a header exactly when the file
\* did not exist when the call started.
C6_HeaderOnce ==
  /\ (~start.init.exists /\ SavesCompleted >= 1) =>
       /\ Len(rows) = SavesCompleted + 1
       /\ rows[1] = HeaderRow
       /\ \A i \in 1..SavesCompleted :
            /\ rows[i + 1].kind = "data"
            /\ RowCarries(rows[i + 1], handed[i])
  /\ JustSaved =>
       (Len(HeadersOf(rows)) = Len(HeadersOf(start.run.rows)) + 1
          <=> ~start.run.exists)

\* C6 witness: two saves into a fresh destination, one header
C6_Witness ==
  /\ ~start.init.exists
  /\ pc = "done"
  /\ SavesCompleted = 2
  /\ Len(rows) = 3
  /\ handed[1] # handed[2]

\* ------------------------------------- what the extraction is held to
IsBlank(t) == \A i \in 1..Len(t) : t[i] = " "

\* t between its first and its last character that is not a blank
Trimmed(t) ==
  IF IsBlank(t) THEN <<>>
  ELSE LET solid == {i \in 1..Len(t) : t[i] # " "}
           lo == CHOOSE i \in solid : \A j \in solid : i <= j
           hi == CHOOSE i \in solid : \A j \in solid : j <= i
       IN [i \in 1..(hi - lo + 1) |-> t[lo + i - 1]]

\* s is t without its leading and trailing blanks
IsTrimOf(s, t) == s = Trimmed(t)

\* the trimmed text is a decimal numeral: digits with at most one point
IsNumeral(t) ==
  LET s == Trimmed(t)
  IN /\ \A i \in 1..Len(s) : IsDigit(s[i]) \/ s[i] = "."
     /\ Cardinality({i \in 1..Len(s) : s[i] = "."}) <= 1
     /\ \E i \in 1..Len(s) : IsDigit(s[i])

\* a rate cell that holds something other than a number
Malformed(t) == ~IsBlank(t) /\ ~IsNumeral(t)

\* rate = (the numeral t) / 100, i.e. 100 * rate = t, on exact decimals
IsHundredthOf(rate, t) ==
  LET s == Trimmed(t)
      digits == SelectSeq(s, IsDigit)
      dots == {i \in 1..Len(s) : s[i] = "."}
      frac == IF dots = {} THEN 0 ELSE Len(s) - (CHOOSE i \in dots : TRUE)
  IN 100 * rate.num * Pow10(frac) = DigitsVal(digits) * Pow10(rate.scale)

\* the row's first cell, trimmed, is the currency code
IsCodeRow(row) == row # <<>> /\ IsTrimOf(USD, row[1])

\* the index of the first data row (rows 2, 3, ...) for the code, or 0
FirstMatchIndex(trs) ==
  IF \E i \in 2..Len(trs) : IsCodeRow(trs[i])
  THEN CHOOSE i \in 2..Len(trs) :
         IsCodeRow(trs[i]) /\ \A j \in 2..(i - 1) : ~IsCodeRow(trs[j])
  ELSE 0

\* the answer of this attempt is a page with the target table
HasPage == response # None /\ response[1].kind = "ok" /\ response[1].table # None

TableRows == response[1].table[1]

\* rec is the record of row: each rate the hundredth of its cell (zero for
\* a blank cell), in column order, and the published time trimmed
BuiltFrom(rec, row) ==
  /\ Len(row) >= 7
  /\ DOMAIN rec = RecordFields
  /\ rec["Currency Name"] = USD
  /\ \A k \in 1..5 :
       \/ IsBlank(row[k + 1]) /\ rec[RateFields[k]] = Zero
       \/ IsNumeral(row[k + 1]) /\ IsHundredthOf(rec[RateFields[k]], row[k + 1])
  /\ IsTrimOf(rec["Pub Time"], row[7])

\* C7: on a page whose table has a data row for the code, with five numeric
\* rate cells and a time cell, a successful attempt returns the record whose
\* buying, cash buying, selling, cash selling and middle rates are cells 1
\* to 5 of that row divided by 100, in that order, and whose published time
\* is the trimmed text of cell 6.
C7_RatesAreHundredths ==
  (pc = "returned" /\ exchange_data # None /\ HasPage) =>
    LET m == FirstMatchIndex(TableRows)
        row == TableRows[m]
        rec == exchange_data[1]
    IN (m # 0 /\ Len(row) >= 7 /\ \A k \in 1..5 : IsNumeral(row[k + 1])) =>
         /\ \A k \in 1..5 : IsHundredthOf(rec[RateFields[k]], row[k + 1])
         /\ IsTrimOf(rec["Pub Time"], row[7])

\* C7 witness: the row USD 68000 67500 68300 68600 68150 09:30 gave
\* 680, 675, 683, 686, 681.5 and 09:30
C7_Witness ==
  /\ pc = "returned"
  /\ exchange_data # None
  /\ HasPage
  /\ FirstMatchIndex(TableRows) # 0
  /\ TableRows[FirstMatchIndex(TableRows)] = GoodRow
  /\ exchange_data[1]["Buying Rate"] = [num |-> 680, scale |-> 0]
  /\ exchange_data[1]["Cash Buying Rate"] = [num |-> 675, scale |-> 0]
  /\ exchange_data[1]["Selling Rate"] = [num |-> 683, scale |-> 0]
  /\ exchange_data[1]["Cash Selling Rate"] = [num |-> 686, scale |-> 0]
  /\ exchange_data[1]["Middle Rate"] = [num |-> 6815, scale |-> 1]
  /\ exchange_data[1]["Pub Time"] = Txt0930

\* a step of Try on a page with the table
TryOnPage == pc = "try" /\ pc' # "try" /\ HasPage

\* the step ended the attempt as a failure, logged with the cause
FailedWith(causes) ==
  /\ exchange_data' = None
  /\ pc' \in {"sleep", "returned"}
  /\ Len(trace') = Len(trace) + 2
  /\ IsAttemptFailed(trace'[Len(trace) + 1])
  /\ trace'[Len(trace) + 1].cause \in causes
  /\ rows' = rows

Succeeded == pc' = "returned" /\ exchange_data' # None

\* C8: the attempt skips the first row of the table and returns the record
\* built from the first later row whose first cell, trimmed, is the code; on
\* a table with no such row (also when only the first row is one) the
\* attempt fails.
C8_Step ==
  TryOnPage =>
    LET m == FirstMatchIndex(TableRows)
    IN /\ m = 0 => FailedWith({"USD rate not found in the table"})
       /\ Succeeded => (m # 0 /\ BuiltFrom(exchange_data'[1], TableRows[m]))

C8_FirstMatchingDataRow == [][C8_Step]_vars

\* C8 witness: the first row is a USD row and is skipped, the second row is
\* not for the code, and the record comes from the third row although a
\* different USD row stands first
C8_Witness ==
  /\ pc = "returned"
  /\ exchange_data # None
  /\ HasPage
  /\ Len(TableRows) = 3
  /\ IsCodeRow(TableRows[1])
  /\ ~IsCodeRow(TableRows[2])
  /\ IsCodeRow(TableRows[3])
  /\ TableRows[1] # TableRows[3]
  /\ BuiltFrom(exchange_data[1], TableRows[3])
  /\ ~BuiltFrom(exchange_data[1], TableRows[1])

\* cell k (1..6) of the row is missing, or is a rate cell that is malformed
BadCell(row, k) == Len(row) < k + 1 \/ (k <= 5 /\ Malformed(row[k + 1]))

\* C9: a returned record has all five rates, the published time and the
\* capture timestamp; when a rate cell of the matched row is malformed or
\* one of cells 1 to 6 is missing the attempt fails, and nothing partial is
\* returned or written.
C9_Step ==
  /\ TryOnPage =>
       LET m == FirstMatchIndex(TableRows)
       IN (m # 0 /\ \E k \in 1..6 : BadCell(TableRows[m], k)) =>
            FailedWith({"ValueError", "IndexError"})
  /\ exchange_data' # None =>
       /\ DOMAIN exchange_data'[1] = RecordFields
       /\ exchange_data'[1]["Timestamp"] \in {Strftime(t) : t \in 0..MaxClock}
  /\ \A i \in 1..Len(rows') : DOMAIN rows'[i].fields = 1..8

C9_Atomic == [][C9_Step]_vars

\* C9 witness: one attempt failed on a malformed cell and the next on a
\* missing cell
C9_Witness ==
  /\ pc = "sleep"
  /\ Len(Failures) = 2
  /\ Failures[1].cause = "ValueError"
  /\ Failures[2].cause = "IndexError"
  /\ exchange_data = None
  /\ rows = <<>>

ZeroText == <<"0", ".", "0", "0", "0", "0">>

\* C10: a blank rate cell of the matched row counts as zero (the attempt
\* succeeds when no other cell is at fault, the rate is 0 and is written as
\* 0.0000), while a rate cell that is neither blank nor a number makes the
\* attempt fail.
C10_Step ==
  /\ TryOnPage =>
       LET m == FirstMatchIndex(TableRows)
           row == TableRows[m]
       IN /\ (m # 0 /\ \A k \in 1..6 : ~BadCell(row, k)) =>
               /\ Succeeded
               /\ \A k \in 1..5 :
                    IsBlank(row[k + 1]) => exchange_data'[1][RateFields[k]] = Zero
          /\ (m # 0 /\ \E k \in 1..5 : Len(row) >= k + 1 /\ Malformed(row[k + 1])) =>
               FailedWith({"ValueError", "IndexError"})
  /\ pc' = "saved" =>
       \A k \in 1..5 :
         exchange_data'[1][RateFields[k]] = Zero =>
           rows'[Len(rows')].fields[k + 1] = ZeroText

C10_EmptyCellIsZero == [][C10_Step]_vars

\* C10 witness: a matched row with a blank rate cell gave a record with
\* that rate 0 and the others as published
C10_Witness ==
  /\ pc = "returned"
  /\ exchange_data # None
  /\ HasPage
  /\ FirstMatchIndex(TableRows) # 0
  /\ \E k \in 1..5 :
       /\ TableRows[FirstMatchIndex(TableRows)][k + 1] \in {<<>>, <<" ">>}
       /\ exchange_data[1][RateFields[k]] = Zero
       /\ \A j \in (1..5) \ {k} : exchange_data[1][RateFields[j]] # Zero

\* ------------------------------------------------ uniform retry policy
\* an event of the trace with the kind of failure left out
EraseCause(e) == [e EXCEPT !.cause = ""]

\* the trace of this invocation, read without the kinds of failure
Shape == [i \in 1..Len(trace) |-> EraseCause(trace[i])]

\* what f failed attempts leave in a trace read without the kinds
RECURSIVE FailedAttempts(_)
FailedAttempts(f) ==
  IF f = 0 THEN <<>>
  ELSE FailedAttempts(f - 1) \o <<EvGet, LogAttemptFailed(f, "")>>
         \o (IF f < max_retries THEN <<LogRetrying, EvSleep(retry_delay)>>
             ELSE <<LogGivingUp>>)

\* the whole trace of an invocation whose first f attempts failed
ShapeAfter(f) ==
  <<LogStart>> \o FailedAttempts(f) \o (IF f < max_retries THEN <<EvGet>> ELSE <<>>)

\* the kinds of failure this invocation met
CausesMet == {Failures[i].cause : i \in 1..Len(Failures)}

\* C11: what get_exchange_rates does depends on which attempts failed and
\* not on why: no kind of failure leaves the loop, and when the call has
\* returned, its requests, delays (with their length) and log entries, read
\* without the kinds of failure, are the sequence fixed by the number of
\* failed attempts, and so is the presence of a result.
C11_UniformRetry ==
  /\ pc # "raised"
  /\ pc = "returned" =>
       /\ Shape = ShapeAfter(Len(Failures))
       /\ exchange_data = None <=> Len(Failures) = max_retries

\* C11 witness: a call that returned after three failures of three
\* different kinds, one of transport and one of parsing among them
C11_Witness ==
  /\ pc = "returned"
  /\ Len(Failures) = 3
  /\ Cardinality(CausesMet) = 3
  /\ CausesMet \cap {"ConnectionError", "HTTPError"} # {}
  /\ CausesMet \cap {"IndexError", "ValueError"} # {}

\* ----------------------------------------------------------- termination
\* the try block of an attempt ends: it returns, raises, or is caught and
\* the loop goes on.  Among the steps of Next these are the steps of Try,
\* and one can be taken whenever Try can.
TryEnds == pc = "try" /\ pc' \in {"returned", "raised", "sleep"}

\* Every request and every delay returns, and the interpreter goes on with
\* the statement it has reached: each step of the program that can be taken
\* is taken in the end.  When run() is called is left to the caller.
Fairness ==
  /\ WF_vars(Get(BasicResponses))
  /\ WF_pc(TryEnds)
  /\ WF_vars(Sleep)
  /\ WF_vars(AfterFetch)
  /\ WF_vars(Save)

SpecLive == Init /\ [][Next]_vars /\ Fairness

IsWrite(e) == e.ev = "WRITE"

Writes == SelectSeq(trace, IsWrite)

\* run() has been entered and has not returned
InRun == pc \in {"get", "try", "sleep", "returned", "save", "open", "write", "saved"}

\* how a finished run() has ended
EndedWithWrite ==
  /\ exchange_data # None
  /\ Len(Gets) = Len(Failures) + 1
  /\ Len(Writes) = 1
  /\ Len(rows) > Len(start.run.rows)

EndedWithoutWrite ==
  /\ exchange_data = None
  /\ Len(Failures) = max_retries
  /\ Len(Gets) = max_retries
  /\ Len(Writes) = 0
  /\ Store = start.run

\* once the fetch of a run() is over, no step of that run() fetches again
NoSecondCycle ==
  pc \in {"returned", "save", "open", "write", "saved"} =>
    pc' \notin {"get", "try", "sleep"}

\* C12: when every request and delay returns, a run() that has been
\* entered returns; it has then either fetched a record and written once,
\* or failed max_retries times and written nothing; and after its fetch is
\* over it never requests or sleeps again.
C12_Terminates ==
  /\ InRun ~> pc = "done"
  /\ [](pc = "done" => (EndedWithWrite \/ EndedWithoutWrite))
  /\ [][NoSecondCycle]_vars

\* C12 witnesses: a run() that ended after retries and one write, and (in
\* the second conjunct's case) the same run having met failures first
C12_Witness ==
  /\ pc = "done"
  /\ EndedWithWrite
  /\ Len(Failures) = 2
  /\ Len(Sleeps) = 2

\* ------------------------------------------------------- order of events
WritePositions == {i \in 1..Len(trace) : IsWrite(trace[i])}

\* the delay at position d of the trace comes straight after a request, the
\* failure entry of that attempt and the retry notice
AfterFailedAttempt(d) ==
  /\ d > 3
  /\ IsGet(trace[d - 3])
  /\ IsAttemptFailed(trace[d - 2])
  /\ trace[d - 1] = LogRetrying

\* the delay at position d is followed by the request of another attempt
BeforeNextAttempt(d) ==
  IF d < Len(trace) THEN IsGet(trace[d + 1]) ELSE pc = "get"

\* C13: in the trace of a run every delay comes straight after a failed
\* attempt (its request, its failure entry, the retry notice) and is
\* followed by the request of another attempt; nothing is written while
\* attempts are still being made; every request and delay precedes the
\* write.
C13_Ordered ==
  /\ \A d \in SleepPositions : AfterFailedAttempt(d) /\ BeforeNextAttempt(d)
  /\ pc \in {"get", "try", "sleep", "returned"} => WritePositions = {}
  /\ \A w \in WritePositions :
       \A i \in GetPositions \cup SleepPositions : i < w

\* C13 witness: a run that slept twice, succeeded and wrote
C13_Witness ==
  /\ pc = "done"
  /\ Cardinality(SleepPositions) = 2
  /\ Cardinality(GetPositions) = 3
  /\ Cardinality(WritePositions) = 1

\* ------------------------------------------------- the store and the fetch
\* get_exchange_rates is running: a request, a try block or a delay is next
InFetch == pc \in {"get", "try", "sleep"}

\* save_to_csv is running with a statement that touches the store next
InSave == pc \in {"save", "open", "write"}

C14_Step ==
  /\ InFetch => Store' = Store
  /\ Store' # Store => InSave

\* C14: no step of get_exchange_rates changes the data directory, the
\* output file or its rows, whatever the outcome of the attempt; every step
\* that changes them is a step of save_to_csv.
C14_FetchLeavesStore == [][C14_Step]_vars

\* C14 witness: get_exchange_rates has returned after three failed attempts
\* and the store is as it was when run() began: no directory, no file
C14_Witness ==
  /\ pc = "returned"
  /\ Len(Gets) = 3
  /\ Len(Sleeps) = 2
  /\ Store = start.run
  /\ ~dirExists

\* ------------------------------------------------------ append-only sink
\* the data rows of the file, in file order
Appended == DataRowsOf(rows)

\* every completed call has its own data row, and two calls made with the
\* same record have rows of identical field text
OneRowPerCall ==
  /\ Len(Appended) >= SavesCompleted
  /\ \A i, j \in 1..SavesCompleted :
       (i < j /\ handed[i] = handed[j]) =>
         /\ Appended[i].fields = Appended[j].fields
         /\ RowCarries(Appended[j], handed[j])

\* C15: no step removes or changes a row of the file (the rows before the
\* step are a prefix of the rows after it), and save_to_csv called twice
\* with the same record leaves two data rows of identical field text.
C15_AppendOnly ==
  /\ [][IsPrefix(rows, rows')]_vars
  /\ []OneRowPerCall

\* C15 witness: two completed calls with the same record, two equal data rows
C15_Witness ==
  /\ pc = "done"
  /\ SavesCompleted = 2
  /\ handed[1] = handed[2]
  /\ Len(Appended) = 2
  /\ Appended[1] = Appended[2]

\* ------------------------------------------------------ capture timestamps
\* the instant a timestamp text stands for
TimeRead(t) == DigitsVal(t)

NonDecreasing(s) == \A i \in 1..(Len(s) - 1) : s[i] <= s[i + 1]

\* the instants of the Timestamp fields of the data rows, in row order
StampsInFile == [i \in 1..Len(Appended) |-> TimeRead(Appended[i].fields[8])]

\* the wall-clock readings of the extractions whose rows are in the file
ReadingsInFile == SubSeq(readings, 1, Len(Appended))

\* C16 as stated: the capture timestamps of the data rows appended by
\* successive cycles are non-decreasing in row order.
C16_Original == NonDecreasing(StampsInFile)

\* C16: the capture timestamp of every data row is the wall-clock reading
\* taken at the successful extraction of its record, rows being in the order
\* of the extractions; the timestamps are non-decreasing in row order
\* whenever those readings were.
C16_StampsAreReadings ==
  /\ Len(Appended) <= Len(readings)
  /\ \A i \in 1..Len(Appended) :
       /\ Len(Appended[i].fields[8]) = 2
       /\ AllDigits(Appended[i].fields[8])
       /\ StampsInFile[i] = readings[i]
  /\ NonDecreasing(ReadingsInFile) => NonDecreasing(StampsInFile)

\* C16 witness: two cycles, the clock read 0 and then 1, two rows stamped so
C16_Witness ==
  /\ pc = "done"
  /\ Len(Appended) = 2
  /\ readings = <<0, 1>>
  /\ StampsInFile = <<0, 1>>

\* ------------------------------------------------------ fixed-point fields
\* a raw cell that holds a whole number
IsIntegerCell(t) == ~IsBlank(t) /\ AllDigits(Trimmed(t))

\* the position of the decimal point of a text with exactly four digits
\* after it and at least one digit before it, all digits; 0 otherwise
PointOfFour(t) ==
  IF /\ Len(t) >= 6
     /\ t[Len(t) - 4] = "."
     /\ AllDigits(SubSeq(t, 1, Len(t) - 5))
     /\ AllDigits(SubSeq(t, Len(t) - 3, Len(t)))
  THEN Len(t) - 4 ELSE 0

\* the value, in ten-thousandths, of a text with four fractional digits
TenThousandths(t) ==
  10000 * DigitsVal(SubSeq(t, 1, Len(t) - 5)) + DigitsVal(SubSeq(t, Len(t) - 3, Len(t)))

\* the row is the record in column order: code, the five rates with four
\* fractional digits and the value of the record's rate, published time,
\* timestamp
IsFixedPointRow(row, rec) ==
  /\ row.kind = "data"
  /\ DOMAIN row.fields = 1..8
  /\ row.fields[1] = rec["Currency Name"]
  /\ \A k \in 1..5 :
       LET rate == rec[RateFields[k]]
       IN rate.scale <= 2 =>
            /\ PointOfFour(row.fields[k + 1]) # 0
            /\ TenThousandths(row.fields[k + 1]) * Pow10(rate.scale) = rate.num * 10000
  /\ row.fields[7] = rec["Pub Time"]
  /\ row.fields[8] = rec["Timestamp"]

\* C17: a raw rate cell that is a whole number n gives the record the rate
\* n / 100, and save_to_csv writes each such rate as a numeral with exactly
\* four fractional digits of that value, the columns being code, buying,
\* cash buying, selling, cash selling, middle, published time, timestamp;
\* the rates 680, 675, 683, 686, 681.5 of the raw cells 68000, 67500, 68300,
\* 68600, 68150 are written 680.0000, 675.0000, 683.0000, 686.0000, 681.5000.
C17_FixedPoint ==
  /\ (pc = "returned" /\ exchange_data # None /\ HasPage) =>
       LET row == TableRows[FirstMatchIndex(TableRows)]
       IN \A k \in 1..5 :
            IsIntegerCell(row[k + 1]) =>
              LET rate == exchange_data[1][RateFields[k]]
              IN /\ rate.scale <= 2
                 /\ rate.num * 100 = DigitsVal(Trimmed(row[k + 1])) * Pow10(rate.scale)
  /\ JustSaved => IsFixedPointRow(rows[Len(rows)], exchange_data[1])
  /\ (JustSaved /\ \A k \in 1..5 :
        exchange_data[1][RateFields[k]] =
          <<[num |-> 680, scale |-> 0], [num |-> 675, scale |-> 0],
            [num |-> 683, scale |-> 0], [num |-> 686, scale |-> 0],
            [num |-> 6815, scale |-> 1]>>[k]) =>
       \A k \in 1..5 :
         rows[Len(rows)].fields[k + 1] =
           <<<<"6", "8", "0", ".", "0", "0", "0", "0">>,
             <<"6", "7", "5", ".", "0", "0", "0", "0">>,
             <<"6", "8", "3", ".", "0", "0", "0", "0">>,
             <<"6", "8", "6", ".", "0", "0", "0", "0">>,
             <<"6", "8", "1", ".", "5", "0", "0", "0">>>>[k]

\* C17 witness: the row of the page with cells 68000, 67500, 68300, 68600,
\* 68150 published at 09:30:00 has been written
C17_Witness ==
  /\ pc = "saved"
  /\ exchange_data # None
  /\ exchange_data[1]["Middle Rate"] = [num |-> 6815, scale |-> 1]
  /\ rows[Len(rows)].fields[1] = <<"U", "S", "D">>
  /\ rows[Len(rows)].fields[2] = <<"6", "8", "0", ".", "0", "0", "0", "0">>
  /\ rows[Len(rows)].fields[6] = <<"6", "8", "1", ".", "5", "0", "0", "0">>
  /\ rows[Len(rows)].fields[7] = <<"0", "9", ":", "3", "0", ":", "0", "0">>

\* ------------------------------------------------------ the first success
\* the position in the trace of the request of the attempt that succeeded
SuccessPosition == CHOOSE g \in GetPositions : \A h \in GetPositions : h <= g

\* C18: when attempt k is the first to succeed, get_exchange_rates has made
\* exactly k requests, slept k - 1 times and logged k - 1 failure entries,
\* numbered 1..k-1, and no give-up entry; all of them precede the request
\* that succeeded, which is the last event of the fetch.
C18_FirstSuccess ==
  Fetched =>
    LET k == Len(Gets)
    IN /\ k \in 1..3
       /\ Len(Sleeps) = k - 1
       /\ Len(Failures) = k - 1
       /\ \A i \in 1..(k - 1) : Failures[i].attempt = i
       /\ GivingUpPositions = {}
       /\ \A i \in SleepPositions \cup FailurePositions : i < SuccessPosition
       /\ pc = "returned" => SuccessPosition = Len(trace)
       /\ \A i \in (SuccessPosition + 1)..Len(trace) :
            trace[i] \in {LogMiddleRate, EvWrite, LogSaved}

\* C18 witness: the third attempt succeeded after two failures and delays
C18_Witness ==
  /\ pc = "returned"
  /\ exchange_data # None
  /\ Len(Gets) = 3
  /\ Len(Sleeps) = 2
  /\ Len(Failures) = 2

\* ------------------------------------- save_to_csv called by two processes
\* Two processes of the program, each calling save_to_csv once on the same
\* data directory and output file.  The first is the process of the
\* variables pc, exchange_data and file_exists; the second is peer.

\* records extraction can return, and the arguments of a call
SampleRecords ==
  {RowRecord(cells, now).value : cells \in {GoodRow, OtherUsdRow}, now \in 0..MaxClock}

EmptyDict == <<>>

SaveArgs == {None, Some(EmptyDict)} \cup SampleRecords

\* parser.save_to_csv(data), called directly
CallSave(args) ==
  /\ pc = "idle"
  /\ \E d \in args :
       /\ exchange_data' = d
       /\ handed' = IF Truthy(d) THEN Append(handed, d[1]) ELSE handed
  /\ runs' = runs + 1
  /\ trace' = <<>>
  /\ start' = [start EXCEPT !.run = Store]
  /\ pc' = "save"
  /\ UNCHANGED <<attempt, response, file_exists, dirExists, fileExists, rows,
                 readings, peer>>

\* the same call in the second process
PeerCall(args) ==
  /\ peer.pc = "off"
  /\ \E d \in args : peer' = [peer EXCEPT !.pc = "save", !.data = d]
  /\ UNCHANGED <<pc, runs, attempt, response, exchange_data, file_exists,
                 dirExists, fileExists, rows, trace, handed, start, readings>>

\* `if not data: return`, os.makedirs, os.path.isfile
PeerEnter ==
  /\ peer.pc = "save"
  /\ IF ~Truthy(peer.data)
     THEN /\ peer' = [peer EXCEPT !.pc = "done"]
          /\ UNCHANGED dirExists
     ELSE /\ dirExists' = TRUE
          /\ peer' = [peer EXCEPT !.pc = "open", !.file_exists = fileExists]
  /\ UNCHANGED <<pc, runs, attempt, response, exchange_data, file_exists,
                 fileExists, rows, trace, handed, start, readings>>

\* open(self.output_file, 'a')
PeerOpen ==
  /\ peer.pc = "open"
  /\ fileExists' = TRUE
  /\ peer' = [peer EXCEPT !.pc = "write"]
  /\ UNCHANGED <<pc, runs, attempt, response, exchange_data, file_exists,
                 dirExists, rows, trace, handed, start, readings>>

\* the body of the with block and the close that flushes it: the header
\* and the row reach the file in one append
PeerWrite ==
  /\ peer.pc = "write"
  /\ rows' = rows \o (IF HeaderNeeded(peer.file_exists) THEN <<HeaderRow>> ELSE <<>>)
                  \o <<DataRow(peer.data[1])>>
  /\ peer' = [peer EXCEPT !.pc = "saved"]
  /\ UNCHANGED <<pc, runs, attempt, response, exchange_data, file_exists,
                 dirExists, fileExists, trace, handed, start, readings>>

\* logging.info("... saved to ..."), in the second process's own log
PeerLog ==
  /\ peer.pc = "saved"
  /\ peer' = [peer EXCEPT !.pc = "done"]
  /\ UNCHANGED <<pc, runs, attempt, response, exchange_data, file_exists,
                 dirExists, fileExists, rows, trace, handed, start, readings>>

PeerSave == PeerEnter \/ PeerOpen \/ PeerWrite \/ PeerLog

NextSave == CallSave(SaveArgs) \/ Save \/ PeerCall(SaveArgs) \/ PeerSave

SpecSave == Init /\ [][NextSave]_vars

\* ------------------------------------------------ two writers, fresh file
\* both processes were called with a record against a destination with no
\* file, and both calls have returned
BothSaved ==
  /\ ~start.init.exists
  /\ pc = "done" /\ Truthy(exchange_data)
  /\ peer.pc = "done" /\ Truthy(peer.data)

\* headers a process writes, by what its existence check found
HeadersDue(found) == IF found THEN 0 ELSE 1

\* some header row of the file is directly followed by the row of rec
HeaderBefore(rec) ==
  \E i \in 1..(Len(rows) - 1) : rows[i] = HeaderRow /\ RowCarries(rows[i + 1], rec)

\* C19 as stated: whatever the interleaving, the file is one header row,
\* first, followed by the two data rows.
C19_Original ==
  BothSaved =>
    /\ Len(rows) = 3
    /\ rows[1] = HeaderRow
    /\ rows[2].kind = "data"
    /\ rows[3].kind = "data"

\* C19: under every interleaving the file holds the data rows of both
\* processes and one header row for each process whose existence check
\* found no file, that header directly before that process's data row; so
\* one or two header rows, two exactly when both checks ran before either
\* open, and a single header need not be the first row.
C19_HeaderPerUnseenFile ==
  BothSaved =>
    /\ Len(Appended) = 2
    /\ \E i, j \in 1..2 :
         /\ i # j
         /\ RowCarries(Appended[i], exchange_data[1])
         /\ RowCarries(Appended[j], peer.data[1])
    /\ Len(HeadersOf(rows)) = HeadersDue(file_exists) + HeadersDue(peer.file_exists)
    /\ Len(HeadersOf(rows)) \in {1, 2}
    /\ ~file_exists => HeaderBefore(exchange_data[1])
    /\ ~peer.file_exists => HeaderBefore(peer.data[1])
    /\ rows[1].kind = "data" => (Len(HeadersOf(rows)) = 1 /\ rows[2] = HeaderRow)

\* C19 witness: both existence checks ran before either process opened the
\* file, and the file holds two header rows
C19_Witness ==
  /\ BothSaved
  /\ ~file_exists
  /\ ~peer.file_exists
  /\ Len(rows) = 4
  /\ rows[1] = HeaderRow
  /\ rows[3] = HeaderRow

\* ------------------------------------------------ save_to_csv of no record
\* the argument is None or an empty dict
IsAbsentOrEmpty(data) == data = None \/ data[1] = EmptyDict

C20_Step ==
  (pc = "save" /\ pc' # pc /\ IsAbsentOrEmpty(exchange_data)) =>
    /\ pc' = "done"
    /\ dirExists' = dirExists
    /\ fileExists' = fileExists
    /\ rows' = rows
    /\ trace' = trace

\* C20: the step save_to_csv takes when called with None or an empty dict
\* is its return: the data directory is not created, the file is neither
\* created nor opened, no header or row is written and nothing is logged.
C20_NoRecordNoOp == [][C20_Step]_vars

\* C20 witness: save_to_csv({}) has returned on a destination with no
\* directory, which still has none, and nothing was logged
C20_Witness ==
  /\ pc = "done"
  /\ exchange_data = Some(EmptyDict)
  /\ peer.pc = "off"
  /\ ~dirExists
  /\ ~fileExists
  /\ rows = <<>>
  /\ trace = <<>>

====
